---- MODULE Spec2Model ----
(***************************************************************************)
(* State-machine model of the beer inventory of trenner1/bottle_app       *)
(* (src/main.cpp): class BottleApp with its operations addBeer,           *)
(* removeBeer, editBeer and flagBreakage, and the value classes           *)
(* ContainerSize, Beer and Breakage they use.                             *)
(*                                                                         *)
(* The console prompts of removeBeer and editBeer are modelled as the     *)
(* parameters of the actions: the values the operation reads from the     *)
(* input stream are the arguments of the action.                          *)
(*                                                                         *)
(* The operations of BottleApp are public and have two callers in the     *)
(* repository. src/test.cpp calls them directly, with any arguments: this *)
(* is Spec and the specifications built from its actions. The menu loop   *)
(* of main calls addBeer only for a name that beerExists does not know,   *)
(* and passes editBeer the name typed without its first character: this   *)
(* is SpecMain. Without lastOp, every step of SpecMain is a step of Spec  *)
(* or leaves the state unchanged.                                         *)
(***************************************************************************)
EXTENDS Integers, Sequences, FiniteSets, TLC

VARIABLES
    isBreakageFlagged,  \* BottleApp::isBreakageFlagged
    beers,              \* BottleApp::beers, a sequence of Beer records
    beerCounts,         \* BottleApp::beerCounts, a map from name to count
    flaggedBeers,       \* BottleApp::flaggedBeers, a sequence of <<name, quantity>>
    totalBreakage,      \* BottleApp::breakage.totalBreakage
    nextBeerId,         \* BottleApp::nextBeerId
    now,                \* the wall clock read by Beer::updateDate
    lastOp,             \* history: the last operation, its arguments and its outcome
    assigned,           \* history: the ids given to the beers added, in order
    attempts,           \* history: the <<name, quantity>> of the adds requested, in order
    container           \* a ContainerSize object of the caller (main, case 1)

vars == <<isBreakageFlagged, beers, beerCounts, flaggedBeers, totalBreakage,
          nextBeerId, now, lastOp, assigned, attempts, container>>

----------------------------------------------------------------------------
(* Bounds of the model *)

\* The adds that pass the quantity check are capped: nextBeerId <= MaxId + 1.
MaxId == 2

\* The name of the aggregate entry of beerCounts.
Total == "Total"

\* Names a caller may give a beer; the code accepts any string, "Total" included.
Names == {"A", "B", Total}

\* Names typed at the rename prompt of editBeer; "" is the bare Enter key.
EditNames == Names \cup {""}

\* Quantities a caller may give a beer to add: negative, zero and positive.
Quantities == {0 - 1, 0, 1}

\* Quantities typed at the prompt of editBeer, which stores them untested.
EditQuantities == {0 - 1, 1}

\* Ids typed at the prompt of removeBeer: never assigned (0), assigned, or beyond.
Ids == 0 .. (MaxId + 1)

\* The remaining attributes are stored and never read by the bookkeeping
\* (the alcohol content is in tenths of a percent).
Styles == {"IPA"}
EditStyles == {""}
AlcoholContents == {65}
Sizes == {12}
Barcodes == {123456}
Metrics == {TRUE}

----------------------------------------------------------------------------
(* std::map<std::string, int> *)

\* The empty map.
EmptyMap == [k \in {} |-> 0]

\* beerCounts.find(k) != beerCounts.end()
HasKey(m, k) == k \in DOMAIN m

\* The value operator[] yields: a missing key is inserted with the value 0.
Lookup(m, k) == IF k \in DOMAIN m THEN m[k] ELSE 0

\* Fault variant of MapAdd: an entry that reaches 0 is erased.
MapAddErase(m, k, d) ==
    IF Lookup(m, k) + d = 0
    THEN [x \in (DOMAIN m) \ {k} |-> m[x]]
    ELSE [x \in (DOMAIN m) \cup {k} |-> IF x = k THEN Lookup(m, k) + d ELSE m[x]]

\* m[k] += d, which inserts k when it is missing.
MapAdd(m, k, d) ==
    [x \in (DOMAIN m) \cup {k} |-> IF x = k THEN Lookup(m, k) + d ELSE m[x]]

----------------------------------------------------------------------------
(* ContainerSize *)

\* The largest and the smallest value of an int.
IntMax == 2147483647

IntMin == (0 - IntMax) - 1

\* The factor 29.5735 of the conversion, as millilitres per 10000 fl oz.
MlPer10000Oz == 295735

\* n * 29.5735 without its fraction, for n >= 0. The product is taken in
\* parts (n = 10000 * q + r) so that no intermediate value exceeds IntMax.
TruncMl(n) ==
    LET q == n \div 10000
        r == n % 10000
    IN q * MlPer10000Oz + r * (MlPer10000Oz \div 10000)
         + (r * (MlPer10000Oz % 10000)) \div 10000

\* Whether size * 29.5735, without its fraction, is a value of int.
FitsInt(size) ==
    /\ size > IntMin
    /\ LET n == IF size >= 0 THEN size ELSE 0 - size
           q == n \div 10000
           r == n % 10000
       IN /\ q <= IntMax \div MlPer10000Oz
          /\ r * (MlPer10000Oz \div 10000) + (r * (MlPer10000Oz % 10000)) \div 10000
                 <= IntMax - q * MlPer10000Oz

\* static_cast<int>(size * 29.5735): the product truncated toward zero, for a
\* product that is a value of int.
ToMl(size) ==
    IF size >= 0 THEN TruncMl(size)
                 ELSE 0 - TruncMl(0 - size)

\* static_cast<int>(size * 29.5735) for any size: the conversion of a double
\* that is no value of int is undefined; the builds produce the smallest int
\* (x86 cvttsd2si) or saturate.
ConvertOutcomes(size) ==
    IF FitsInt(size) THEN {ToMl(size)}
    ELSE IF size < 0 THEN {IntMin} ELSE {IntMin, IntMax}

\* ContainerSize::ContainerSize
ContainerSize(isMetric, size) == [isMetric |-> isMetric, size |-> size]

\* ContainerSize::getSizeWithUnits, mlSize being static_cast<int>(mlSize) of
\* the non-metric branch.
getSizeWithUnits(cs, mlSize) ==
    IF cs.isMetric
    THEN ToString(cs.size) \o " ml"
    ELSE ToString(mlSize) \o " ml (Converted from " \o ToString(cs.size) \o " fl oz)"

\* Fault variant of setSize: a non-metric container always converts.
setSizeConverting(cs, newSize, convertToMetric) ==
    IF ~cs.isMetric
    THEN [isMetric |-> TRUE, size |-> ToMl(newSize)]
    ELSE [cs EXCEPT !.size = newSize]

\* ContainerSize::setSize, for a conversion whose product is a value of int.
setSize(cs, newSize, convertToMetric) ==
    IF convertToMetric /\ ~cs.isMetric
    THEN [isMetric |-> TRUE, size |-> ToMl(newSize)]
    ELSE [cs EXCEPT !.size = newSize]

\* ContainerSize::setIsMetric
setIsMetric(cs, metric) == [cs EXCEPT !.isMetric = metric]

----------------------------------------------------------------------------
(* Beer *)

\* Beer::Beer: the id is -1 until the inventory assigns one.
Beer(style, name, alcoholContent, containerSize, quantity, barcode) ==
    [id |-> 0 - 1, style |-> style, name |-> name,
     alcoholContent |-> alcoholContent, containerSize |-> containerSize,
     quantity |-> quantity, barcode |-> barcode, updatedDate |-> now]

----------------------------------------------------------------------------
(* Helpers of the operations *)

\* The inventory state an operation may change.
State == [beers |-> beers, beerCounts |-> beerCounts,
          isBreakageFlagged |-> isBreakageFlagged,
          flaggedBeers |-> flaggedBeers, totalBreakage |-> totalBreakage,
          nextBeerId |-> nextBeerId]

\* The operation that ran last and what it reported.
Op(op, result) == [op |-> op, result |-> result]

\* Fault variant of InvalidQuantity: the test written as < 0.
InvalidQuantityLt(quantity) == quantity < 0

\* addBeer: if (beer.getQuantity() <= 0)
InvalidQuantity(quantity) == quantity <= 0

\* Fault variant of getTotalBottleCount: operator[] in place of at().
getTotalBottleCountOrZero(counts) == [found |-> TRUE, count |-> Lookup(counts, Total)]

\* BottleApp::getTotalBottleCount: beerCounts.at("Total"), which throws
\* std::out_of_range (found is FALSE) when the key is missing.
getTotalBottleCount(counts) ==
    IF HasKey(counts, Total)
    THEN [found |-> TRUE, count |-> counts[Total]]
    ELSE [found |-> FALSE, count |-> 0]

\* What the caller of getTotalBottleCount observes.
TotalResult(r) == IF r.found THEN ToString(r.count) ELSE "NotFound"

\* BottleApp::beerExists
beerExists(counts, beerName) == HasKey(counts, beerName)

\* Fault variant of IdAfterAdd: the increment forgotten.
IdAfterAddSame(n) == n

\* addBeer: nextBeerId++
IdAfterAdd(n) == n + 1

\* Fault variant of incrementTotalBreakage: the amount replaces the total.
incrementTotalBreakageSet(t, amount) == amount

\* Fault variant of incrementTotalBreakage: one unit counted for each add.
incrementTotalBreakageByOne(t, amount) == t + 1

\* Breakage::incrementTotalBreakage
incrementTotalBreakage(t, amount) == t + amount

\* Fault variant of FindById: a loop that ends on the last beer when none matches.
FindByIdOrLast(bs, idToRemove) ==
    IF \E i \in 1..Len(bs) : bs[i].id = idToRemove
    THEN CHOOSE i \in 1..Len(bs) :
             bs[i].id = idToRemove /\ \A j \in 1..(i - 1) : bs[j].id # idToRemove
    ELSE Len(bs)

\* removeBeer: the loop that looks for it->getId() == idToRemove; the index of
\* the first such beer, 0 when the loop ends without a match.
FindById(bs, idToRemove) ==
    IF \E i \in 1..Len(bs) : bs[i].id = idToRemove
    THEN CHOOSE i \in 1..Len(bs) :
             bs[i].id = idToRemove /\ \A j \in 1..(i - 1) : bs[j].id # idToRemove
    ELSE 0

\* Fault variant of FindByName: the last beer stands in for a missing name.
FindByNameOrLast(bs, beerName) ==
    IF \E i \in 1..Len(bs) : bs[i].name = beerName
    THEN CHOOSE i \in 1..Len(bs) :
             bs[i].name = beerName /\ \A j \in 1..(i - 1) : bs[j].name # beerName
    ELSE Len(bs)

\* editBeer: the loop that looks for beer.getName() == beerName; the index of
\* the first such beer, 0 when the loop ends without a match.
FindByName(bs, beerName) ==
    IF \E i \in 1..Len(bs) : bs[i].name = beerName
    THEN CHOOSE i \in 1..Len(bs) :
             bs[i].name = beerName /\ \A j \in 1..(i - 1) : bs[j].name # beerName
    ELSE 0

\* beers.erase(it)
Erase(bs, i) == [j \in 1..(Len(bs) - 1) |-> IF j < i THEN bs[j] ELSE bs[j + 1]]

----------------------------------------------------------------------------
(* Initial state: BottleApp::BottleApp *)

InitApp ==
    /\ isBreakageFlagged = FALSE
    /\ beers = <<>>
    /\ beerCounts = EmptyMap
    /\ flaggedBeers = <<>>
    /\ totalBreakage = 0
    /\ nextBeerId = 1
    /\ now = 0
    /\ lastOp = Op("none", "none")
    /\ assigned = <<>>
    /\ attempts = <<>>

\* The container of the second beer of src/test.cpp.
Init == InitApp /\ container = ContainerSize(FALSE, 12)

----------------------------------------------------------------------------
(* Operations *)

\* BottleApp::addBeer
addBeer(beer) ==
    /\ now' = now
    /\ IF InvalidQuantity(beer.quantity)
       THEN /\ lastOp' = Op("add", "InvalidQuantity")
            /\ UNCHANGED <<isBreakageFlagged, beers, beerCounts, flaggedBeers,
                           totalBreakage, nextBeerId, assigned>>
       ELSE /\ nextBeerId <= MaxId
            /\ nextBeerId' = IdAfterAdd(nextBeerId)
            /\ IF beerExists(beerCounts, beer.name)
               THEN /\ lastOp' = Op("add", "DuplicateName")
                    /\ UNCHANGED <<isBreakageFlagged, beers, beerCounts,
                                   flaggedBeers, totalBreakage, assigned>>
               ELSE /\ beerCounts' = MapAdd(MapAdd(beerCounts, beer.name, beer.quantity),
                                            Total, beer.quantity)
                    /\ beers' = Append(beers, [beer EXCEPT !.id = nextBeerId,
                                                           !.updatedDate = now])
                    /\ IF isBreakageFlagged
                       THEN /\ flaggedBeers' = Append(flaggedBeers,
                                                      <<beer.name, beer.quantity>>)
                            /\ totalBreakage' =
                                   incrementTotalBreakage(totalBreakage, beer.quantity)
                       ELSE UNCHANGED <<flaggedBeers, totalBreakage>>
                    /\ lastOp' = Op("add", "Added")
                    /\ assigned' = Append(assigned, nextBeerId)
                    /\ UNCHANGED isBreakageFlagged

\* Fault variant of flagBreakage: the flag is toggled.
flagBreakageToggle ==
    /\ isBreakageFlagged' = ~isBreakageFlagged
    /\ lastOp' = Op("flag", "Flagged")
    /\ UNCHANGED <<beers, beerCounts, flaggedBeers, totalBreakage, nextBeerId,
                   now, assigned>>

\* BottleApp::flagBreakage
flagBreakage ==
    /\ isBreakageFlagged' = TRUE
    /\ lastOp' = Op("flag", "Flagged")
    /\ UNCHANGED <<beers, beerCounts, flaggedBeers, totalBreakage, nextBeerId,
                   now, assigned>>

\* BottleApp::removeBeer, idToRemove being the id read at the prompt
removeBeer(idToRemove) ==
    LET i == FindById(beers, idToRemove) IN
    /\ IF i # 0
       THEN /\ beerCounts' = MapAdd(MapAdd(beerCounts, beers[i].name,
                                           0 - beers[i].quantity),
                                    Total, 0 - beers[i].quantity)
            /\ beers' = Erase(beers, i)
            /\ lastOp' = Op("remove", "Removed")
       ELSE /\ lastOp' = Op("remove", "NotFound")
            /\ UNCHANGED <<beers, beerCounts>>
    /\ UNCHANGED <<isBreakageFlagged, flaggedBeers, totalBreakage, nextBeerId,
                   now, assigned>>

\* BottleApp::editBeer, the values after beerName being those read at the prompts
editBeer(beerName, newName, newStyle, newAlcohol, newSize, isMetric, newQuantity) ==
    LET i == FindByName(beers, beerName) IN
    /\ IF i # 0
       THEN LET beer == beers[i]
                newContainerSize ==
                    setIsMetric(setSize(beer.containerSize, newSize,
                                        beer.containerSize.isMetric), isMetric)
            IN /\ beers' = [beers EXCEPT ![i] =
                      [beer EXCEPT
                          !.name = IF newName # "" THEN newName ELSE @,
                          !.style = IF newStyle # "" THEN newStyle ELSE @,
                          !.alcoholContent = newAlcohol,
                          !.containerSize = newContainerSize,
                          !.quantity = newQuantity]]
               /\ lastOp' = Op("edit", "Updated")
       ELSE /\ lastOp' = Op("edit", "NotFound")
            /\ UNCHANGED beers
    /\ UNCHANGED <<isBreakageFlagged, beerCounts, flaggedBeers, totalBreakage,
                   nextBeerId, now, assigned>>

----------------------------------------------------------------------------
(* Specification: any sequence of calls of the public operations of one   *)
(* BottleApp, made directly, as src/test.cpp makes them                    *)

\* A call of addBeer with any beer.
Add ==
    \E style \in Styles, name \in Names, alc \in AlcoholContents,
       metric \in Metrics, size \in Sizes, quantity \in Quantities,
       barcode \in Barcodes :
        /\ addBeer(Beer(style, name, alc, ContainerSize(metric, size), quantity, barcode))
        /\ UNCHANGED <<attempts, container>>

\* A call of removeBeer, which reads the id.
Remove == \E idToRemove \in Ids : removeBeer(idToRemove) /\ UNCHANGED <<attempts, container>>

\* A call of editBeer with any name, which reads the new values.
Edit ==
    \E beerName \in Names, newName \in EditNames, newStyle \in EditStyles,
       alc \in AlcoholContents, size \in Sizes, metric \in Metrics,
       quantity \in EditQuantities :
        /\ editBeer(beerName, newName, newStyle, alc, size, metric, quantity)
        /\ UNCHANGED <<attempts, container>>

\* A call of flagBreakage
Flag == flagBreakage /\ UNCHANGED <<attempts, container>>

Next == Add \/ Remove \/ Edit \/ Flag

Spec == Init /\ [][Next]_vars

----------------------------------------------------------------------------
(* Specification: the menu loop of main *)

\* Lines typed at the prompt of option 7; "" is the bare Enter key.
TypedNames == {"", "A", "B", Total, "xA", "xB", "xTotal"}

\* std::cin.ignore() followed by std::getline: ignore discards one character,
\* so the name read is the line typed without its first character; of an
\* empty line the character discarded is the newline, and the name read is
\* the following line, whole.
TypedBeerName(line, following) ==
    IF line = "" THEN following ELSE SubSeq(line, 2, Len(line))

\* Option 1: the beer is built and addBeer called only when beerExists does
\* not know the name; otherwise the message is printed and nothing is called.
MainAdd ==
    \E style \in Styles, name \in Names, alc \in AlcoholContents,
       metric \in Metrics, size \in Sizes, quantity \in Quantities,
       barcode \in Barcodes :
        /\ IF beerExists(beerCounts, name)
           THEN /\ lastOp' = Op("add", "DuplicateName")
                /\ UNCHANGED <<isBreakageFlagged, beers, beerCounts, flaggedBeers,
                               totalBreakage, nextBeerId, now, assigned>>
           ELSE addBeer(Beer(style, name, alc, ContainerSize(metric, size), quantity, barcode))
        /\ UNCHANGED <<attempts, container>>

\* Option 7: editBeer is called with the name read from the lines typed.
MainEdit ==
    \E line \in TypedNames, following \in EditNames, newName \in EditNames,
       newStyle \in EditStyles, alc \in AlcoholContents, size \in Sizes,
       metric \in Metrics, quantity \in EditQuantities :
        /\ editBeer(TypedBeerName(line, following), newName, newStyle, alc, size,
                    metric, quantity)
        /\ UNCHANGED <<attempts, container>>

\* Options 2 and 3 call removeBeer and flagBreakage; options 4, 5 and 6 print
\* and change nothing.
NextMain == MainAdd \/ Remove \/ MainEdit \/ Flag

SpecMain == Init /\ [][NextMain]_vars


----------------------------------------------------------------------------
(* Specification: adds only, of distinct names and positive quantities, as *)
(* in the scenario of src/test.cpp                                         *)

AddsNames == {"Example IPA", "Sample Stout", "A", "B", Total}

\* The quantities of the scenario of src/test.cpp, and 1.
AddsQuantities == {1, 12, 24}

\* The names requested so far.
AttemptedNames == {attempts[k][1] : k \in 1..Len(attempts)}

AddDistinct ==
    \E style \in Styles, name \in AddsNames \ AttemptedNames,
       alc \in AlcoholContents, metric \in Metrics, size \in Sizes,
       quantity \in AddsQuantities, barcode \in Barcodes :
        /\ addBeer(Beer(style, name, alc, ContainerSize(metric, size), quantity, barcode))
        /\ attempts' = Append(attempts, <<name, quantity>>)
        /\ UNCHANGED container

NextAdds == AddDistinct

SpecAdds == Init /\ [][NextAdds]_vars

----------------------------------------------------------------------------
(* Specification: adds of several quantities, flagBreakage and removals,   *)
(* as in the scenario of src/test.cpp, which flags and then adds 24 and 12 *)

\* Quantities of the adds of the breakage runs.
BreakageQuantities == {0, 1, 12, 24}

AddFlagged ==
    \E style \in Styles, name \in Names, alc \in AlcoholContents,
       metric \in Metrics, size \in Sizes, quantity \in BreakageQuantities,
       barcode \in Barcodes :
        /\ addBeer(Beer(style, name, alc, ContainerSize(metric, size), quantity, barcode))
        /\ UNCHANGED <<attempts, container>>

NextBreakage == AddFlagged \/ Flag \/ Remove

SpecBreakage == Init /\ [][NextBreakage]_vars

----------------------------------------------------------------------------
(* Specification: adds and edits while the wall clock advances *)

\* The last reading of the clock.
MaxTime == 2

\* Time passes between two operations.
Tick ==
    /\ now < MaxTime
    /\ now' = now + 1
    /\ UNCHANGED <<isBreakageFlagged, beers, beerCounts, flaggedBeers,
                   totalBreakage, nextBeerId, lastOp, assigned, attempts, container>>

\* Adds of one bottle.
AddOne ==
    \E style \in Styles, name \in Names, alc \in AlcoholContents,
       metric \in Metrics, size \in Sizes, barcode \in Barcodes :
        /\ addBeer(Beer(style, name, alc, ContainerSize(metric, size), 1, barcode))
        /\ UNCHANGED <<attempts, container>>

\* Edits that keep the name and the style and type a quantity.
EditQuantity ==
    \E beerName \in Names, newStyle \in EditStyles, alc \in AlcoholContents,
       size \in Sizes, metric \in Metrics, quantity \in EditQuantities :
        /\ editBeer(beerName, "", newStyle, alc, size, metric, quantity)
        /\ UNCHANGED <<attempts, container>>

NextClock == AddOne \/ EditQuantity \/ Tick

SpecClock == Init /\ [][NextClock]_vars

----------------------------------------------------------------------------
(* Specification: any sequence of operations and readings of the total *)

\* A call of getTotalBottleCount, as at the end of src/test.cpp.
CountTotal ==
    /\ lastOp' = Op("total", TotalResult(getTotalBottleCount(beerCounts)))
    /\ UNCHANGED <<isBreakageFlagged, beers, beerCounts, flaggedBeers,
                   totalBreakage, nextBeerId, now, assigned, attempts, container>>

NextTotal == Add \/ Remove \/ Edit \/ Flag \/ CountTotal

SpecTotal == Init /\ [][NextTotal]_vars

----------------------------------------------------------------------------
(* Specification: one ContainerSize object, displayed and resized *)

\* Sizes typed at the prompt: those of src/test.cpp (12, 355), small and
\* negative ones, a size whose millilitres have no fraction (2000), the
\* largest size whose millilitres are a value of int, the next one, and the
\* largest int.
SizeInputs ==
    {0 - IntMax, 0 - 72615134, 0 - 2000, 0 - 12, 0 - 1, 0, 1, 12, 16, 355, 500, 2000,
     72615133, 72615134, IntMax}

InitSize ==
    /\ InitApp
    /\ container \in {ContainerSize(m, s) : m \in BOOLEAN, s \in SizeInputs}

\* A call of container.getSizeWithUnits()
ShowSize ==
    /\ \E mlSize \in (IF container.isMetric THEN {container.size}
                                            ELSE ConvertOutcomes(container.size)) :
           lastOp' = Op("show", getSizeWithUnits(container, mlSize))
    /\ UNCHANGED <<isBreakageFlagged, beers, beerCounts, flaggedBeers,
                   totalBreakage, nextBeerId, now, assigned, attempts, container>>

\* A call of container.setSize(newSize, convertToMetric)
SetSize(newSize, convertToMetric) ==
    /\ IF convertToMetric /\ ~container.isMetric /\ ~FitsInt(newSize)
       THEN \E mlSize \in ConvertOutcomes(newSize) :
                container' = [isMetric |-> TRUE, size |-> mlSize]
       ELSE container' = setSize(container, newSize, convertToMetric)
    /\ lastOp' = Op("setSize", "Set")
    /\ UNCHANGED <<isBreakageFlagged, beers, beerCounts, flaggedBeers,
                   totalBreakage, nextBeerId, now, assigned, attempts>>

Resize == \E newSize \in SizeInputs, convertToMetric \in BOOLEAN : SetSize(newSize, convertToMetric)

\* A call of container.setIsMetric(metric)
ChangeUnit ==
    /\ \E metric \in BOOLEAN : container' = setIsMetric(container, metric)
    /\ lastOp' = Op("setIsMetric", "Set")
    /\ UNCHANGED <<isBreakageFlagged, beers, beerCounts, flaggedBeers,
                   totalBreakage, nextBeerId, now, assigned, attempts>>

NextSize == ShowSize \/ Resize \/ ChangeUnit

SpecSize == InitSize /\ [][NextSize]_vars

----------------------------------------------------------------------------
(* Specification: non-metric beers are added and every field is edited *)

\* The names of the beers added, and the names, styles, alcohol contents,
\* sizes and quantities typed at the prompts of editBeer.
StockNames == {"A", "B"}

NewNames == {"", "C"}

NewStyles == {"", "Stout"}

NewAlcoholContents == {70}

NewSizes == {355}

NewQuantities == {2}

\* Adds of a beer in a non-metric container, as the second beer of src/test.cpp.
AddNonMetric ==
    \E style \in Styles, name \in StockNames, alc \in AlcoholContents,
       size \in Sizes, barcode \in Barcodes :
        /\ addBeer(Beer(style, name, alc, ContainerSize(FALSE, size), 1, barcode))
        /\ UNCHANGED <<attempts, container>>

EditFields ==
    \E beerName \in StockNames \cup NewNames, newName \in NewNames,
       newStyle \in NewStyles, alc \in NewAlcoholContents, size \in NewSizes,
       metric \in BOOLEAN, quantity \in NewQuantities :
        /\ editBeer(beerName, newName, newStyle, alc, size, metric, quantity)
        /\ UNCHANGED <<attempts, container>>

NextEdit == AddNonMetric \/ EditFields \/ Flag

SpecEdit == Init /\ [][NextEdit]_vars

----------------------------------------------------------------------------
(* Specification: adds of several quantities, flagBreakage, removals and   *)
(* edits                                                                   *)

\* Quantities of the adds: those of src/test.cpp, and 0, which is rejected.
LedgerQuantities == {0, 12, 24}

AddLedger ==
    \E style \in Styles, name \in StockNames, alc \in AlcoholContents,
       metric \in Metrics, size \in Sizes, quantity \in LedgerQuantities,
       barcode \in Barcodes :
        /\ addBeer(Beer(style, name, alc, ContainerSize(metric, size), quantity, barcode))
        /\ UNCHANGED <<attempts, container>>

\* Edits that rename a beer or keep its name, and type a new quantity.
EditLedger ==
    \E beerName \in StockNames \cup NewNames, newName \in NewNames,
       newStyle \in EditStyles, alc \in AlcoholContents, size \in Sizes,
       metric \in Metrics, quantity \in NewQuantities :
        /\ editBeer(beerName, newName, newStyle, alc, size, metric, quantity)
        /\ UNCHANGED <<attempts, container>>

NextLedger == AddLedger \/ Flag \/ Remove \/ EditLedger

SpecLedger == Init /\ [][NextLedger]_vars

----------------------------------------------------------------------------
(* Vocabulary of the properties *)

RECURSIVE SumQuantity(_)
\* The sum of the quantities of the beers of bs.
SumQuantity(bs) ==
    IF bs = <<>> THEN 0 ELSE bs[1].quantity + SumQuantity(Tail(bs))

\* The sum of the quantities of the beers of bs that are named n.
SumByName(bs, n) ==
    LET Named(b) == b.name = n IN SumQuantity(SelectSeq(bs, Named))

RECURSIVE SumAttempts(_)
\* The sum of the quantities of the adds requested.
SumAttempts(as) ==
    IF as = <<>> THEN 0 ELSE as[1][2] + SumAttempts(Tail(as))

RECURSIVE SumFlagged(_)
\* The sum of the quantities of the pairs of fs.
SumFlagged(fs) ==
    IF fs = <<>> THEN 0 ELSE fs[1][2] + SumFlagged(Tail(fs))

\* Some beer in stock is named n.
LiveName(n) == \E i \in 1..Len(beers) : beers[i].name = n

\* Some beer in stock has the id.
LiveId(id) == \E i \in 1..Len(beers) : beers[i].id = id

\* A step of addBeer for a candidate of this name and quantity.
AddStep(name, quantity) ==
    \E style \in Styles, alc \in AlcoholContents, metric \in Metrics,
       size \in Sizes, barcode \in Barcodes :
        addBeer(Beer(style, name, alc, ContainerSize(metric, size), quantity, barcode))

\* A step of editBeer on the beer named beerName that types newName and newQuantity.
EditStep(beerName, newName, newQuantity) ==
    \E newStyle \in EditStyles, alc \in AlcoholContents, size \in Sizes,
       metric \in Metrics :
        editBeer(beerName, newName, newStyle, alc, size, metric, newQuantity)

----------------------------------------------------------------------------
(* Properties *)

\* C1: in every reachable state beerCounts agrees with beers: for every name
\* the count is the sum of the quantities of the beers in stock of that name,
\* and the count of "Total" is the sum of the quantities of all beers in stock.
C1_CountsAgreeWithBeers ==
    /\ \A n \in Names \ {Total} : Lookup(beerCounts, n) = SumByName(beers, n)
    /\ Lookup(beerCounts, Total) = SumQuantity(beers)

\* C2: in every reachable state the names of the beers in stock are pairwise
\* distinct.
C2_NamesDistinct ==
    \A i, j \in 1..Len(beers) : i # j => beers[i].name # beers[j].name

\* C3: an add of a positive quantity under the name of a beer in stock is
\* rejected as DuplicateName and changes nothing of the inventory, nextBeerId
\* included.
C3_DuplicateAddChangesNothing ==
    [][\A name \in Names, quantity \in {q \in Quantities : q > 0} :
          (AddStep(name, quantity) /\ LiveName(name))
              => (lastOp'.result = "DuplicateName" /\ State' = State)]_vars

\* C4: an add of a positive quantity is rejected as a duplicate exactly when a
\* beer in stock has the name; otherwise the beer is appended with the id
\* nextBeerId, nextBeerId grows by one, and the counts of the name and of
\* "Total" each grow by the quantity.
C4_AddRejectedIffLiveName ==
    [][\A name \in Names, quantity \in {q \in Quantities : q > 0} :
          AddStep(name, quantity) =>
              /\ (lastOp'.result = "DuplicateName") <=> LiveName(name)
              /\ ~LiveName(name) =>
                    /\ lastOp'.result = "Added"
                    /\ Len(beers') = Len(beers) + 1
                    /\ SubSeq(beers', 1, Len(beers)) = beers
                    /\ beers'[Len(beers')].id = nextBeerId
                    /\ beers'[Len(beers')].name = name
                    /\ beers'[Len(beers')].quantity = quantity
                    /\ nextBeerId' = nextBeerId + 1
                    /\ Lookup(beerCounts', name) = Lookup(beerCounts, name) + quantity
                    /\ Lookup(beerCounts', Total) = Lookup(beerCounts, Total) + quantity]_vars

\* C5: an edit that types the name of another beer in stock fails with
\* Conflict and changes nothing of the inventory.
C5_RenameCollisionFails ==
    [][\A beerName \in Names, newName \in Names, newQuantity \in EditQuantities :
          (/\ EditStep(beerName, newName, newQuantity)
           /\ FindByName(beers, beerName) # 0
           /\ \E j \in 1..Len(beers) :
                 j # FindByName(beers, beerName) /\ beers[j].name = newName)
              => (lastOp'.result = "Conflict" /\ State' = State)]_vars

\* C6: after adds only, of pairwise distinct names and positive quantities,
\* every add has succeeded, the count of "Total" is the sum of the quantities
\* requested, and the count of every name is the quantity requested under it.
C6_AddsSumUp ==
    /\ lastOp.op = "add" => lastOp.result = "Added"
    /\ Lookup(beerCounts, Total) = SumAttempts(attempts)
    /\ \A k \in 1..Len(attempts) :
          attempts[k][1] # Total
              => Lookup(beerCounts, attempts[k][1]) = attempts[k][2]

\* C7: an add of a quantity <= 0 is rejected as InvalidQuantity and changes
\* nothing of the inventory: beers, beerCounts and its keys, nextBeerId, the
\* flag, flaggedBeers and the breakage total.
C7_InvalidQuantityChangesNothing ==
    [][lastOp'.op = "add" => \A name \in Names, quantity \in Quantities :
          (AddStep(name, quantity) /\ quantity <= 0)
              => (lastOp'.result = "InvalidQuantity" /\ State' = State)]_vars

\* C7, its case: a rejected add of a quantity <= 0 on a flagged inventory that
\* holds a beer.
C7_Witness ==
    /\ lastOp = Op("add", "InvalidQuantity")
    /\ isBreakageFlagged
    /\ beers # <<>>

\* C8: removing the id of a beer in stock decreases the count of the beer's
\* name and the count of "Total" each by exactly the beer's quantity, erases
\* exactly that beer, and changes nothing else.
C8_RemoveDecrementsByQuantity ==
    [][\A id \in Ids :
          (removeBeer(id) /\ LiveId(id)) =>
              LET i == FindById(beers, id)
                  b == beers[i]
              IN /\ lastOp'.result = "Removed"
                 /\ Lookup(beerCounts', b.name) = Lookup(beerCounts, b.name) - b.quantity
                 /\ Lookup(beerCounts', Total) = Lookup(beerCounts, Total) - b.quantity
                 /\ \A k \in (DOMAIN beerCounts') \ {b.name, Total} :
                       k \in DOMAIN beerCounts /\ beerCounts'[k] = beerCounts[k]
                 /\ beers' = Erase(beers, i)
                 /\ UNCHANGED <<nextBeerId, isBreakageFlagged, flaggedBeers,
                                totalBreakage>>]_vars

\* C9: removing an id that no beer in stock has reports NotFound and changes
\* nothing of the inventory.
C9_RemoveAbsentChangesNothing ==
    [][lastOp'.op = "remove" => \A id \in Ids :
          (removeBeer(id) /\ ~LiveId(id))
              => (lastOp'.result = "NotFound" /\ State' = State)]_vars

\* C9, its case: a remove that reported NotFound while a beer is in stock and
\* another one was removed before.
C9_Witness ==
    /\ lastOp = Op("remove", "NotFound")
    /\ beers # <<>>
    /\ Len(assigned) > Len(beers)

\* C10: the ids given to the beers added start at 1 and strictly increase, so
\* no id is given twice; the ids of the beers in stock are pairwise distinct,
\* were given by an add, and are smaller than nextBeerId.
C10_IdsNeverReused ==
    /\ assigned # <<>> => assigned[1] = 1
    /\ \A k \in 1..(Len(assigned) - 1) : assigned[k] < assigned[k + 1]
    /\ \A i, j \in 1..Len(beers) : i # j => beers[i].id # beers[j].id
    /\ \A i \in 1..Len(beers) :
          /\ beers[i].id < nextBeerId
          /\ \E k \in 1..Len(assigned) : assigned[k] = beers[i].id
    /\ \A i, j \in 1..Len(beers) : i < j => beers[i].id < beers[j].id

\* C10, its case: the first beer added has been removed and a beer added
\* after it is in stock.
C10_Witness ==
    /\ Len(assigned) >= 2
    /\ Len(beers) = 1
    /\ beers[1].id = assigned[Len(assigned)]
    /\ ~LiveId(1)


\* C11: a successful add on a flagged inventory appends exactly the pair of
\* the beer's name and quantity at the end of flaggedBeers and increases the
\* breakage total by exactly the quantity; an add on an inventory that is not
\* flagged leaves flaggedBeers and the breakage total unchanged.
C11_FlaggedAddRecordsBreakage ==
    [][lastOp'.op = "add" => \A name \in Names, quantity \in BreakageQuantities :
          AddStep(name, quantity) =>
              /\ (isBreakageFlagged /\ lastOp'.result = "Added") =>
                    /\ flaggedBeers' = Append(flaggedBeers, <<name, quantity>>)
                    /\ totalBreakage' = totalBreakage + quantity
              /\ ~isBreakageFlagged => UNCHANGED <<flaggedBeers, totalBreakage>>]_vars

\* C11, its case: one beer was added before the flag and one of 12 or 24
\* bottles after it.
C11_Witness ==
    /\ lastOp = Op("add", "Added")
    /\ isBreakageFlagged
    /\ Len(beers) = 2
    /\ Len(flaggedBeers) = 1
    /\ flaggedBeers[1] = <<beers[2].name, beers[2].quantity>>
    /\ totalBreakage = beers[2].quantity
    /\ totalBreakage > 1


\* C12: the date of a beer is refreshed by every mutation of it: after a
\* successful add the date of the new beer is the time of the add, and after
\* a successful edit, one that only types a quantity included, the date of the
\* edited beer is the time of the edit.
C12_MutationRefreshesDate ==
    [][/\ lastOp' = Op("add", "Added") =>
              \A name \in Names :
                  AddStep(name, 1) => beers'[Len(beers')].updatedDate = now
       /\ lastOp' = Op("edit", "Updated") =>
              \A beerName \in Names, newQuantity \in EditQuantities :
                  EditStep(beerName, "", newQuantity) =>
                      beers'[FindByName(beers, beerName)].updatedDate = now]_vars


\* C13: an edit by a name that no beer in stock carries reports NotFound and
\* leaves the beers (every field, their order and number), the counts, the
\* next id and the breakage state unchanged.
C13_EditAbsentChangesNothing ==
    [][lastOp'.op = "edit" =>
          \/ (lastOp'.result = "NotFound" /\ State' = State)
          \/ \A beerName \in Names :
                 ~LiveName(beerName) =>
                     \A newName \in EditNames, newQuantity \in EditQuantities :
                         ~EditStep(beerName, newName, newQuantity)]_vars

\* C13, its case: an edit found no beer of the name while another beer was in
\* stock.
C13_Witness ==
    /\ lastOp = Op("edit", "NotFound")
    /\ Len(beers) >= 1


\* C14: beerExists(name) is the test that name is a key of beerCounts; no
\* operation removes a key, so a name keeps existing in every later state, and
\* a successful add makes the name of the added beer a key. The key is kept
\* when the last beer of the name is removed by id.
C14_ExistsNeverRevoked ==
    [][/\ \A n \in Names :
              /\ beerExists(beerCounts', n) <=> n \in DOMAIN beerCounts'
              /\ beerExists(beerCounts, n) => beerExists(beerCounts', n)
       /\ (lastOp' = Op("add", "Added") /\ beers' # beers) =>
              beerExists(beerCounts', beers'[Len(beers')].name)]_vars

\* C14, its case: the only beer of a name was removed by id and the name is
\* still known, with a count of 0.
C14_Witness ==
    /\ lastOp = Op("remove", "Removed")
    /\ beers = <<>>
    /\ beerExists(beerCounts, "A")
    /\ beerCounts["A"] = 0


\* C15: getTotalBottleCount fails with NotFound while no add has succeeded,
\* and in every state after a successful add it succeeds and returns the
\* count of "Total", also when every beer has since been removed.
C15_TotalAfterFirstAdd ==
    LET r == getTotalBottleCount(beerCounts)
    IN /\ assigned = <<>> => ~r.found
       /\ assigned # <<>> => (r.found /\ r.count = beerCounts[Total])
       /\ lastOp.op = "total" => lastOp.result = TotalResult(r)

\* C15, its case: the total was read after the only beer had been removed.
C15_Witness ==
    /\ lastOp = Op("total", "0")
    /\ assigned # <<>>
    /\ beers = <<>>


\* C16: the breakage flag is sticky and flagBreakage is idempotent: no
\* operation clears the flag once it is set; flagBreakage sets it and changes
\* neither the beers, the counts, the next id, flaggedBeers nor the breakage
\* total, and on an inventory already flagged it changes nothing at all.
C16_FlagStickyIdempotent ==
    [][/\ isBreakageFlagged => isBreakageFlagged'
       /\ lastOp'.op = "flag" =>
              /\ isBreakageFlagged'
              /\ UNCHANGED <<beers, beerCounts, nextBeerId, flaggedBeers, totalBreakage>>
              /\ isBreakageFlagged => State' = State]_vars

\* C16, its case: flagBreakage was called again on a flagged inventory that
\* holds a beer and a recorded breakage.
C16_Witness ==
    /\ lastOp = Op("flag", "Flagged")
    /\ isBreakageFlagged
    /\ flaggedBeers # <<>>
    /\ beers # <<>>


\* C17: the conversion truncates. A non-metric container of size s >= 0 is
\* displayed with floor(s * 29.5735) millilitres and a metric one with its
\* size unchanged; setSize stores newSize, and exactly when convertToMetric
\* holds and the container is non-metric it stores floor(newSize * 29.5735)
\* instead and makes the container metric, the unit being unchanged otherwise.
\* Stated for the sizes s >= 0 the claim speaks of. A floor above IntMax
\* equals no int that is displayed or stored.
C17_ConversionIsFloor ==
    [][/\ lastOp'.op = "show" =>
              IF container.isMetric
              THEN lastOp'.result = ToString(container.size) \o " ml"
              ELSE container.size >= 0 =>
                       /\ FitsInt(container.size)
                       /\ lastOp'.result =
                              getSizeWithUnits(container, TruncMl(container.size))
       /\ lastOp'.op = "setSize" =>
              \A newSize \in SizeInputs, convertToMetric \in BOOLEAN :
                  (newSize >= 0 /\ SetSize(newSize, convertToMetric)) =>
                      IF convertToMetric /\ ~container.isMetric
                      THEN /\ FitsInt(newSize)
                           /\ container' = [isMetric |-> TRUE, size |-> TruncMl(newSize)]
                      ELSE container' = [container EXCEPT !.size = newSize]]_vars


\* C18: a successful edit changes only the fields typed, of the one beer
\* edited: a name or style typed empty keeps its value; alcohol content, size,
\* unit and quantity take exactly the values typed, the size without any
\* conversion; the id and the barcode of the beer, its position, the number of
\* beers, every other beer, the next id and the breakage state are unchanged.
C18_EditChangesOnlyTypedFields ==
    [][lastOp' = Op("edit", "Updated") =>
          \A beerName \in StockNames \cup NewNames, newName \in NewNames,
             newStyle \in NewStyles, alc \in NewAlcoholContents, size \in NewSizes,
             metric \in BOOLEAN, quantity \in NewQuantities :
              (LiveName(beerName)
                   /\ editBeer(beerName, newName, newStyle, alc, size, metric, quantity)) =>
                  LET i == FindByName(beers, beerName) IN
                      /\ Len(beers') = Len(beers)
                      /\ beers'[i].id = beers[i].id
                      /\ beers'[i].barcode = beers[i].barcode
                      /\ beers'[i].name = (IF newName = "" THEN beers[i].name ELSE newName)
                      /\ beers'[i].style = (IF newStyle = "" THEN beers[i].style ELSE newStyle)
                      /\ beers'[i].alcoholContent = alc
                      /\ beers'[i].containerSize = [isMetric |-> metric, size |-> size]
                      /\ beers'[i].quantity = quantity
                      /\ \A j \in 1..Len(beers) : j # i => beers'[j] = beers[j]
                      /\ UNCHANGED <<nextBeerId, isBreakageFlagged, flaggedBeers,
                                     totalBreakage>>]_vars

\* C18, its case: of two beers in stock the second, in a non-metric
\* container, was edited with an empty name, a new style and a size that stays
\* in fluid ounces, on a flagged inventory with a recorded breakage.
C18_Witness ==
    /\ lastOp = Op("edit", "Updated")
    /\ Len(beers) = 2
    /\ beers[1].containerSize = ContainerSize(FALSE, 12)
    /\ beers[2].name = "B"
    /\ beers[2].style = "Stout"
    /\ beers[2].containerSize = ContainerSize(FALSE, 355)
    /\ flaggedBeers # <<>>


\* C19: in every reachable state every beer in stock has a quantity of at
\* least 0.
C19_QuantitiesNotNegative ==
    \A i \in 1..Len(beers) : beers[i].quantity >= 0

\* C20: in every reachable state no entry of beerCounts is negative, and when
\* no beer is in stock and the key "Total" exists, the count of "Total" is 0.
C20_CountsNotNegative ==
    /\ \A k \in DOMAIN beerCounts : beerCounts[k] >= 0
    /\ (beers = <<>> /\ HasKey(beerCounts, Total)) => beerCounts[Total] = 0


\* C21: a beer named "Total" does not corrupt the aggregate: after any
\* sequence of adds the count of "Total" is the sum of the quantities of the
\* beers in stock, and an add of a beer named "Total" is rejected as a
\* duplicate exactly when a beer in stock is named "Total".
C21_TotalNameKeepsAggregate ==
    [][lastOp'.op = "add" =>
          /\ Lookup(beerCounts', Total) = SumQuantity(beers')
          /\ \A quantity \in AddsQuantities :
                 AddStep(Total, quantity) =>
                     (lastOp'.result = "DuplicateName" <=> LiveName(Total))]_vars


\* C22: in every reachable state the breakage total is the sum of the
\* quantities of the pairs of flaggedBeers, and flaggedBeers is append-only:
\* every step keeps the pairs recorded, and a removal, an edit, flagBreakage
\* and a rejected add change neither flaggedBeers nor the breakage total.
C22_BreakageLedger ==
    /\ [](totalBreakage = SumFlagged(flaggedBeers))
    /\ [][/\ Len(flaggedBeers') >= Len(flaggedBeers)
          /\ SubSeq(flaggedBeers', 1, Len(flaggedBeers)) = flaggedBeers
          /\ lastOp' # Op("add", "Added") =>
                 UNCHANGED <<flaggedBeers, totalBreakage>>]_vars

\* C22, its case: two flagged adds of 12 and 24 bottles were recorded, one of
\* the beers was removed and the other renamed by an edit.
C22_Witness ==
    /\ lastOp = Op("edit", "Updated")
    /\ Len(beers) = 1
    /\ Len(flaggedBeers) = 2
    /\ \A k \in 1..2 : flaggedBeers[k][1] # beers[1].name
    /\ totalBreakage = 36

====
